---- MODULE Spec2Model ----
(***************************************************************************)
(* Smart Scribbler: the client pipeline (App.processNotes, the export      *)
(* button, the Google hand-off) and the Express server (OAuth URL, OAuth   *)
(* callback, Google Doc proxy), as state machines.                         *)
(*                                                                         *)
(*   Spec        the client: App state and one processNotes run at a time, *)
(*               with the AI calls, the file reads and the fetch answered  *)
(*               by the environment in any order.                          *)
(*   ServerSpec  the server: concurrent requests to its three routes, in   *)
(*               both versions of the server file (one shared OAuth2       *)
(*               client, or one client per request).                       *)
(*   LiveSpec    the client's runs with every pending call answered.       *)
(*   ExportSpec  exportToPdf and exportToPpt, library call by library      *)
(*               call, on results of every shape.                          *)
(***************************************************************************)
EXTENDS Integers, Sequences, FiniteSets, TLC

\* ------------------------------------------------------------------ bounds
MaxFiles == 1        \* files the user selects
MaxSections == 2     \* sections in an analysis result
MaxDiagrams == 2     \* diagram descriptions in one section
MaxCalls == 2        \* diagram descriptions in one analysis result
MaxExports == 1      \* downloads recorded
MaxRequests == 2     \* requests the server receives on each of its routes

\* ------------------------------------------------------- program constants
MinDocIdLen == 25    \* /[-\w]{25,}/

VARIABLES
  \* App state (useState)
  files, docUrl, isProcessing, processedData, outputType, error, googleTokens,
  \* the processNotes run in progress
  pc, pendingReads, fetchBody, response, analyzeInput, result, images, completed,
  \* history of the run and of the exports
  analyzeCalls, fetchCalls, runOutcome, saved,
  \* the export routine followed call by call: its document under construction
  export,
  \* the server: which version of the server file runs, the credentials of its
  \* one shared OAuth2 client, the authorization URLs it generated, and its
  \* requests to /auth/callback and /api/google-doc/content
  serverVersion, credentials, authFlows, callbacks, contentRequests

appVars == <<files, docUrl, isProcessing, processedData, outputType, error,
             googleTokens>>
runVars == <<pc, pendingReads, fetchBody, response, analyzeInput, result, images,
             completed>>
histVars == <<analyzeCalls, fetchCalls, runOutcome, saved>>
clientVars == <<appVars, runVars, histVars, export>>
serverVars == <<serverVersion, credentials, authFlows, callbacks, contentRequests>>
vars == <<clientVars, serverVars>>

\* ------------------------------------------------------------------ values
\* null of an object-valued state (processedData, googleTokens, ...)
Null == [null |-> TRUE]
\* null of the string-valued error state
NullError == "<null>"
\* what destructuring a missing key yields
Undefined == "<undefined>"

ErrInvalidUrl == "Invalid Google Doc URL"
ErrNoInput == "Please provide notes via image or Google Doc"
ErrFallback == "Failed to process notes"
ErrConnect == "Failed to connect to Google"
ErrNoSections == "Cannot read properties of undefined (reading 'map')"

\* messages of the Error an external call rejects with ("" is an empty message)
RejectMessages == {"", "request failed"}

Tokens == {[access_token |-> "A", refresh_token |-> "rA"],
           [access_token |-> "B", refresh_token |-> "rB"]}

\* A docUrl is a string; only the class of each character matters to the
\* pattern: "w" is a character of [-\w], "/" is any other character.
Run(n) == [i \in 1..n |-> "w"]
UrlPrefix == Run(5) \o <<"/", "/">> \o Run(4) \o <<"/">>
DocUrls == { <<>>,
             UrlPrefix \o Run(MinDocIdLen - 1) \o <<"/">> \o Run(4),
             UrlPrefix \o Run(MinDocIdLen) \o <<"/">> \o Run(4) }

\* number of consecutive [-\w] characters of url from position i
RECURSIVE RunLength(_, _)
RunLength(url, i) ==
  IF i > Len(url) \/ url[i] # "w" THEN 0 ELSE 1 + RunLength(url, i + 1)

\* a pattern one character short: /[-\w]{24,}/
MatchStartsShort(url) == {i \in 1..Len(url) : RunLength(url, i) >= MinDocIdLen - 1}

\* docUrl.match(/[-\w]{25,}/): the leftmost position where at least 25 such
\* characters follow, matched greedily
MatchStarts(url) == {i \in 1..Len(url) : RunLength(url, i) >= MinDocIdLen}
HasDocId(url) == MatchStarts(url) # {}
Leftmost(S) == CHOOSE i \in S : \A j \in S : i <= j
MatchDocId(url) ==
  SubSeq(url, Leftmost(MatchStarts(url)),
         Leftmost(MatchStarts(url)) + RunLength(url, Leftmost(MatchStarts(url))) - 1)

\* JS truthiness of googleTokens
Truthy(v) == v # Null

\* ---------------------------------------------------------- analysis result
Desc(s, i) == <<"diagram", s, i>>

\* a section as the model returns it; n < 0: no "diagrams" key
Section(s, n) ==
  IF n < 0
    THEN [heading |-> <<"heading", s>>, content |-> <<"content", s>>,
          isElaborated |-> FALSE]
    ELSE [heading |-> <<"heading", s>>, content |-> <<"content", s>>,
          isElaborated |-> FALSE, diagrams |-> [i \in 1..n |-> Desc(s, i)]]

\* the results the model answers with: per section the number of its diagram
\* descriptions (-1: the section has no "diagrams" key)
RECURSIVE CallsOfShape(_)
CallsOfShape(shape) ==
  IF shape = <<>> THEN 0
  ELSE (IF Head(shape) > 0 THEN Head(shape) ELSE 0) + CallsOfShape(Tail(shape))
Shapes ==
  {<<-1>>} \cup
  {sh \in UNION {[1..k -> 0..MaxDiagrams] : k \in 0..MaxSections} :
     CallsOfShape(sh) <= MaxCalls}
MkResult(shape) ==
  [title |-> "Notes", sections |-> [s \in 1..Len(shape) |-> Section(s, shape[s])]]

\* the empty object {}
EmptyObject == [empty |-> TRUE]

\* what the analysis model answers: empty text, the JSON text of a result, or
\* JSON text that lacks the sections the schema asks for
Replies ==
  {[text |-> "empty"], [text |-> "json", value |-> [title |-> "Notes"]]}
    \cup {[text |-> "json", value |-> MkResult(sh)] : sh \in Shapes}

\* an analyzeNotes that answers empty text with an empty result
ParseReplyAsEmptyResult(reply) ==
  IF reply.text = "empty" THEN [title |-> "", sections |-> <<>>] ELSE reply.value

\* analyzeNotes' last line: JSON.parse(response.text || "{}")
ParseReply(reply) == IF reply.text = "empty" THEN EmptyObject ELSE reply.value

HasSections(r) == "sections" \in DOMAIN r
HasDiagrams(section) ==
  "diagrams" \in DOMAIN section /\ Len(section.diagrams) > 0

\* ------------------------------------------------------------ diagram calls
DataUri(desc) == [png |-> desc]

\* generateDiagramImage: the first inlineData part as a data URI, else null
GenerateDiagramImage(desc, hasInlineData) ==
  IF hasInlineData THEN DataUri(desc) ELSE Null

\* the calls section.diagrams.map(desc => generateDiagramImage(desc)) makes,
\* over all sections: <<s, i>> is the call for diagrams[i] of sections[s]
Calls(r) ==
  {c \in (1..Len(r.sections)) \X (1..MaxDiagrams) :
     /\ HasDiagrams(r.sections[c[1]])
     /\ c[2] <= Len(r.sections[c[1]].diagrams)}

Pending == [done |-> FALSE, value |-> Null]
Settled(v) == [done |-> TRUE, value |-> v]
NoImages == [c \in {} |-> Pending]

\* a fan-out that never resolves
NeverSettled(slots) == FALSE

\* a fan-out that resolves as soon as one promise has resolved
SomeSettled(slots) == \E c \in DOMAIN slots : slots[c].done

\* Promise.all resolves when every promise has resolved
AllSettled(slots) == \A c \in DOMAIN slots : slots[c].done

\* a section that keeps every result, null included
KeepAll(seq) == seq

\* images.filter(img => img !== null)
RECURSIVE FilterNonNull(_)
FilterNonNull(seq) ==
  IF seq = <<>> THEN <<>>
  ELSE IF Head(seq) # Null THEN <<Head(seq)>> \o FilterNonNull(Tail(seq))
  ELSE FilterNonNull(Tail(seq))

\* results collected as the calls complete, instead of by position
SectionImagesAsCompleted(slots, s, n) ==
  [k \in 1..n |-> slots[SelectSeq(completed, LAMBDA c : c[1] = s)[k]].value]

\* Promise.all's value: the results in the order of the promises
SectionImages(slots, s, n) == [i \in 1..n |-> slots[<<s, i>>].value]

\* the section callback of result.sections.map
SectionWithImages(section, s, slots) ==
  IF HasDiagrams(section)
    THEN [heading |-> section.heading, content |-> section.content,
          isElaborated |-> section.isElaborated, diagrams |-> section.diagrams,
          diagramImages |->
            FilterNonNull(SectionImages(slots, s, Len(section.diagrams)))]
    ELSE section

\* { ...result, sections: sectionsWithImages }
WithImages(r, slots) ==
  [title |-> r.title,
   sections |-> [s \in 1..Len(r.sections) |->
                   SectionWithImages(r.sections[s], s, slots)]]

\* ------------------------------------------------------------ client: Init
ClientInit ==
  /\ files = <<>> /\ docUrl = <<>> /\ isProcessing = FALSE
  /\ processedData = Null /\ outputType = "pdf" /\ error = NullError
  /\ googleTokens = Null
  /\ pc = "idle" /\ pendingReads = {} /\ fetchBody = Null /\ response = Null
  /\ analyzeInput = Null /\ result = Null /\ images = NoImages
  /\ completed = <<>>
  /\ analyzeCalls = 0 /\ fetchCalls = 0
  /\ runOutcome = "none" /\ saved = <<>>
  /\ export = Null

\* ------------------------------------------------------- client: the inputs
\* handleFileChange, one file at a time
HandleFileChange ==
  /\ Len(files) < MaxFiles
  /\ files' = Append(files, "image")
  /\ UNCHANGED <<docUrl, isProcessing, processedData, outputType, error,
                 googleTokens, runVars, histVars>>
  /\ UNCHANGED <<export, serverVars>>

\* removeFile(index): prev.filter((_, i) => i !== index)
RemoveFile(index) ==
  /\ index \in 1..Len(files)
  /\ files' = SubSeq(files, 1, index - 1) \o SubSeq(files, index + 1, Len(files))
  /\ UNCHANGED <<docUrl, isProcessing, processedData, outputType, error,
                 googleTokens, runVars, histVars>>
  /\ UNCHANGED <<export, serverVars>>

\* onChange of the Google Doc link input
SetDocUrl(url) ==
  /\ url # docUrl
  /\ docUrl' = url
  /\ UNCHANGED <<files, isProcessing, processedData, outputType, error,
                 googleTokens, runVars, histVars>>
  /\ UNCHANGED <<export, serverVars>>

\* the two output-format buttons
SetOutputType(type) ==
  /\ type # outputType
  /\ outputType' = type
  /\ UNCHANGED <<files, docUrl, isProcessing, processedData, error,
                 googleTokens, runVars, histVars>>
  /\ UNCHANGED <<export, serverVars>>

\* window messages the page can receive, from any origin: the handler checks
\* the type only, so the tokens of a message may be missing
Messages == [type : {"GOOGLE_AUTH_SUCCESS", "OTHER"}, tokens : Tokens \cup {Null}]

\* handleMessage
HandleMessage(data) ==
  /\ data.type = "GOOGLE_AUTH_SUCCESS"
  /\ googleTokens' = data.tokens
  /\ UNCHANGED <<files, docUrl, isProcessing, processedData, outputType, error,
                 runVars, histVars>>
  /\ UNCHANGED <<export, serverVars>>

\* handleGoogleConnect whose fetch of /api/auth/url or res.json() rejects; when
\* they resolve, the handler opens the popup and changes no state
HandleGoogleConnectFails ==
  /\ ~Truthy(googleTokens)
  /\ error' = ErrConnect
  /\ UNCHANGED <<files, docUrl, isProcessing, processedData, outputType,
                 googleTokens, runVars, histVars>>
  /\ UNCHANGED <<export, serverVars>>

\* ------------------------------------------------------ client: processNotes
\* a button that stays enabled during a run
GenerateDisabledWithoutInput == Len(files) = 0 /\ docUrl = <<>>

\* disabled={isProcessing || (files.length === 0 && !docUrl)}
GenerateDisabled == isProcessing \/ (Len(files) = 0 /\ docUrl = <<>>)

\* err.message || 'Failed to process notes'
CatchMessage(message) == IF message # "" THEN message ELSE ErrFallback

ClearRun ==
  /\ pc' = "idle" /\ pendingReads' = {} /\ fetchBody' = Null /\ response' = Null
  /\ analyzeInput' = Null /\ result' = Null /\ images' = NoImages
  /\ completed' = <<>>

\* a catch block that stores what the run had so far
CatchAndStorePartial(message, cause) ==
  /\ error' = CatchMessage(message)
  /\ isProcessing' = FALSE
  /\ ClearRun
  /\ runOutcome' = cause
  /\ processedData' = IF pc = "diagrams" THEN WithImages(result, images)
                      ELSE processedData

\* a catch block that clears the previous result
CatchAndClear(message, cause) ==
  /\ error' = CatchMessage(message)
  /\ isProcessing' = FALSE
  /\ ClearRun
  /\ runOutcome' = cause
  /\ processedData' = Null

\* catch (err) { setError(...) } finally { setIsProcessing(false) }; calls still
\* in flight are abandoned: nothing reads their results
CatchAndReport(message, cause) ==
  /\ error' = CatchMessage(message)
  /\ isProcessing' = FALSE
  /\ ClearRun
  /\ runOutcome' = cause
  /\ UNCHANGED processedData

\* the click on Generate, up to the first await (or the synchronous throw)
ProcessNotes ==
  /\ ~GenerateDisabled
  /\ analyzeCalls' = 0
  /\ IF Len(files) > 0
       THEN /\ isProcessing' = TRUE /\ error' = NullError
            /\ pc' = "reading" /\ pendingReads' = 1..Len(files)
            /\ runOutcome' = "running" /\ fetchCalls' = 0
            /\ UNCHANGED <<processedData, fetchBody, response, analyzeInput,
                           result, images, completed>>
     ELSE IF docUrl # <<>> /\ Truthy(googleTokens)
       THEN IF ~HasDocId(docUrl)
              THEN /\ CatchAndReport(ErrInvalidUrl, "invalidUrl")
                   /\ fetchCalls' = 0
              ELSE /\ isProcessing' = TRUE /\ error' = NullError
                   /\ pc' = "fetching"
                   /\ fetchBody' = [docId |-> MatchDocId(docUrl),
                                    tokens |-> googleTokens]
                   /\ fetchCalls' = 1
                   /\ runOutcome' = "running"
                   /\ UNCHANGED <<processedData, pendingReads, response,
                                  analyzeInput, result, images, completed>>
     ELSE /\ CatchAndReport(ErrNoInput, "noInput")
          /\ fetchCalls' = 0
  /\ UNCHANGED <<files, docUrl, outputType, googleTokens, saved>>
  /\ UNCHANGED <<export, serverVars>>

\* reader.onloadend of one file
FileRead(i) ==
  /\ pc = "reading" /\ i \in pendingReads
  /\ pendingReads' = pendingReads \ {i}
  /\ UNCHANGED <<appVars, pc, fetchBody, response, analyzeInput, result, images, completed,
                 histVars>>
  /\ UNCHANGED <<export, serverVars>>

\* await Promise.all(files.map(...)) has every file's data
AllFilesRead == pendingReads = {}

\* result = await analyzeNotes(imageData.map(...)): the call
AnalyzeImages ==
  /\ pc = "reading" /\ AllFilesRead
  /\ pc' = "analyzing"
  /\ analyzeInput' = [type |-> "image", data |-> "imageData"]
  /\ analyzeCalls' = analyzeCalls + 1
  /\ UNCHANGED <<appVars, pendingReads, fetchBody, response, result, images, completed,
                 fetchCalls, runOutcome, saved>>
  /\ UNCHANGED <<export, serverVars>>

\* what the server answers POST /api/google-doc/content with
DocContents == {"doc text"}
FetchResponses ==
  {[status |-> 200, body |-> [content |-> c]] : c \in DocContents}
    \cup {[status |-> 500, body |-> [error |-> "Failed to fetch Google Doc"]]}

\* await fetch(...) resolves (fetch resolves on any HTTP status)
FetchResolves(res) ==
  /\ pc = "fetching"
  /\ response' = res
  /\ fetchBody' = Null
  /\ pc' = "fetched"
  /\ UNCHANGED <<appVars, pendingReads, analyzeInput, result, images, completed, histVars>>
  /\ UNCHANGED <<export, serverVars>>

\* await fetch(...) rejects (network failure)
FetchRejects(message) ==
  /\ pc = "fetching"
  /\ CatchAndReport(message, "fetchRejected")
  /\ UNCHANGED <<files, docUrl, outputType, googleTokens, analyzeCalls,
                 fetchCalls, saved>>
  /\ UNCHANGED <<export, serverVars>>

\* await res.json() rejects (the body does not arrive, or is not JSON)
ResponseJsonRejects(message) ==
  /\ pc = "fetched"
  /\ CatchAndReport(message, "fetchRejected")
  /\ UNCHANGED <<files, docUrl, outputType, googleTokens, analyzeCalls,
                 fetchCalls, saved>>
  /\ UNCHANGED <<export, serverVars>>

\* const { content } = await res.json()
ContentOf(res) ==
  IF "content" \in DOMAIN res.body THEN res.body.content ELSE Undefined

\* result = await analyzeNotes({ type: 'text', data: content }): the call
AnalyzeText ==
  /\ pc = "fetched"
  /\ pc' = "analyzing"
  /\ analyzeInput' = [type |-> "text", data |-> ContentOf(response)]
  /\ analyzeCalls' = analyzeCalls + 1
  /\ response' = Null
  /\ UNCHANGED <<appVars, pendingReads, fetchBody, result, images, completed,
                 fetchCalls, runOutcome, saved>>
  /\ UNCHANGED <<export, serverVars>>

\* analyzeNotes resolves with the parsed answer of the model
AnalyzeResolves(reply) ==
  /\ pc = "analyzing"
  /\ result' = ParseReply(reply)
  /\ analyzeInput' = Null
  /\ pc' = "analyzed"
  /\ UNCHANGED <<appVars, pendingReads, fetchBody, response, images, completed, histVars>>
  /\ UNCHANGED <<export, serverVars>>

\* analyzeNotes rejects (the API call fails)
AnalyzeRejects(message) ==
  /\ pc = "analyzing"
  /\ CatchAndReport(message, "analyzeRejected")
  /\ UNCHANGED <<files, docUrl, outputType, googleTokens, analyzeCalls,
                 fetchCalls, saved>>
  /\ UNCHANGED <<export, serverVars>>

\* result.sections.map(async section => ...): every generateDiagramImage call
\* of the run starts here; result.sections of {} is undefined and .map throws
StartDiagrams ==
  /\ pc = "analyzed"
  /\ IF HasSections(result)
       THEN /\ images' = [c \in Calls(result) |-> Pending]
            /\ pc' = "diagrams"
            /\ UNCHANGED <<appVars, pendingReads, fetchBody, response,
                           analyzeInput, result, completed, histVars>>
       ELSE /\ CatchAndReport(ErrNoSections, "noSections")
            /\ UNCHANGED <<files, docUrl, outputType, googleTokens, analyzeCalls,
                           fetchCalls, saved>>
  /\ UNCHANGED <<export, serverVars>>

\* one generateDiagramImage call resolves, with an image or with null
DiagramResolves(c, hasInlineData) ==
  /\ pc = "diagrams" /\ c \in DOMAIN images /\ ~images[c].done
  /\ images' = [images EXCEPT ![c] =
       Settled(GenerateDiagramImage(result.sections[c[1]].diagrams[c[2]],
                                    hasInlineData))]
  /\ completed' = Append(completed, c)
  /\ UNCHANGED <<appVars, pc, pendingReads, fetchBody, response, analyzeInput,
                 result, histVars>>
  /\ UNCHANGED <<export, serverVars>>

\* one generateDiagramImage call rejects: Promise.all rejects at once
DiagramRejects(c, message) ==
  /\ pc = "diagrams" /\ c \in DOMAIN images /\ ~images[c].done
  /\ CatchAndReport(message, IF completed # <<>> THEN "diagramRejectedPartial"
                                                  ELSE "diagramRejected")
  /\ UNCHANGED <<files, docUrl, outputType, googleTokens, analyzeCalls,
                 fetchCalls, saved>>
  /\ UNCHANGED <<export, serverVars>>

\* setProcessedData({ ...result, sections: sectionsWithImages }); finally
SetProcessedData ==
  /\ pc = "diagrams" /\ AllSettled(images)
  /\ processedData' = WithImages(result, images)
  /\ isProcessing' = FALSE
  /\ ClearRun
  /\ runOutcome' = "stored"
  /\ UNCHANGED <<files, docUrl, outputType, error, googleTokens, analyzeCalls,
                 fetchCalls, saved>>
  /\ UNCHANGED <<export, serverVars>>

\* ----------------------------------------------------------- client: export
\* exportToPdf: if (!processedData) return; ... doc.save(...)
ExportToPdf ==
  IF processedData = Null THEN UNCHANGED saved
  ELSE saved' = Append(saved, [format |-> "pdf"])

\* exportToPpt: if (!processedData) return; ... ppt.writeFile(...)
ExportToPpt ==
  IF processedData = Null THEN UNCHANGED saved
  ELSE saved' = Append(saved, [format |-> "ppt"])

\* {processedData && <button onClick={outputType === 'pdf' ? exportToPdf : exportToPpt}>}
DownloadShown == processedData # Null

Download ==
  /\ DownloadShown
  /\ Len(saved) < MaxExports
  /\ IF outputType = "pdf" THEN ExportToPdf ELSE ExportToPpt
  /\ UNCHANGED <<appVars, runVars, analyzeCalls, fetchCalls, runOutcome>>
  /\ UNCHANGED <<export, serverVars>>

\* the steps of a run that wait for nothing but the environment's answer: a
\* file read, the fetch, an AI call, and the continuations that follow them
RunProgress ==
  \/ \E i \in 1..MaxFiles : FileRead(i)
  \/ AnalyzeImages
  \/ \E res \in FetchResponses : FetchResolves(res)
  \/ \E message \in RejectMessages : FetchRejects(message)
  \/ \E message \in RejectMessages : ResponseJsonRejects(message)
  \/ AnalyzeText
  \/ \E reply \in Replies : AnalyzeResolves(reply)
  \/ \E message \in RejectMessages : AnalyzeRejects(message)
  \/ StartDiagrams
  \/ \E c \in (1..MaxSections) \X (1..MaxDiagrams), b \in BOOLEAN :
       DiagramResolves(c, b)
  \/ \E c \in (1..MaxSections) \X (1..MaxDiagrams), message \in RejectMessages :
       DiagramRejects(c, message)
  \/ SetProcessedData

ClientStep ==
  \/ HandleFileChange
  \/ \E index \in 1..MaxFiles : RemoveFile(index)
  \/ \E url \in DocUrls : SetDocUrl(url)
  \/ \E type \in {"pdf", "ppt"} : SetOutputType(type)
  \/ \E data \in Messages : HandleMessage(data)
  \/ HandleGoogleConnectFails
  \/ ProcessNotes
  \/ \E i \in 1..MaxFiles : FileRead(i)
  \/ AnalyzeImages
  \/ \E res \in FetchResponses : FetchResolves(res)
  \/ \E message \in RejectMessages : FetchRejects(message)
  \/ \E message \in RejectMessages : ResponseJsonRejects(message)
  \/ AnalyzeText
  \/ \E reply \in Replies : AnalyzeResolves(reply)
  \/ \E message \in RejectMessages : AnalyzeRejects(message)
  \/ StartDiagrams
  \/ \E c \in (1..MaxSections) \X (1..MaxDiagrams), b \in BOOLEAN :
       DiagramResolves(c, b)
  \/ \E c \in (1..MaxSections) \X (1..MaxDiagrams), message \in RejectMessages :
       DiagramRejects(c, message)
  \/ SetProcessedData
  \/ Download


\* ------------------------------------------- the export routines, call by call
\* Spec takes an export as one step (Download above: the routine is synchronous
\* and touches no App state); ExportSpec follows exportToPdf and exportToPpt
\* through their library calls, on results drawn from ExportInputs.

\* line counts doc.splitTextToSize(section.content, 170) returns
LineCounts == {1, 22, 34}

\* a section's content that splits into n lines
ContentOfLines(s, n) == <<"content", s, n>>

\* doc.splitTextToSize(content, 170).length
SplitTextToSize(content) == IF Len(content) >= 3 THEN content[3] ELSE 1

\* a section of a stored result: k < 0: no diagramImages key, else k images
ExportSection(s, n, k) ==
  IF k < 0
    THEN [heading |-> <<"heading", s>>, content |-> ContentOfLines(s, n),
          isElaborated |-> FALSE]
    ELSE [heading |-> <<"heading", s>>, content |-> ContentOfLines(s, n),
          isElaborated |-> FALSE,
          diagrams |-> [i \in 1..MaxDiagrams |-> Desc(s, i)],
          diagramImages |-> [i \in 1..k |-> DataUri(Desc(s, i))]]

SectionKinds == LineCounts \X (-1..MaxDiagrams)

\* the values of processedData the routines are followed on
ExportInputs ==
  {Null} \cup
  { [title |-> "Notes",
     sections |-> [s \in 1..Len(kinds) |-> ExportSection(s, kinds[s][1], kinds[s][2])]] :
      kinds \in UNION {[1..n -> SectionKinds] : n \in 0..MaxSections} }

\* no export routine is on the stack
ExportIdle == IF export = Null THEN TRUE ELSE export.stage \in {"returned", "saved"}

\* a test that passes over a single image
HasSeveralDiagramImages(section) ==
  "diagramImages" \in DOMAIN section /\ Len(section.diagramImages) > 1

\* if (section.diagramImages) / if (section.diagramImages && length > 0)
HasDiagramImages(section) ==
  "diagramImages" \in DOMAIN section /\ Len(section.diagramImages) > 0

\* where a forEach over the sections continues after section s - 1
SectionStage(s) == IF s <= Len(processedData.sections) THEN "section" ELSE "save"

\* ---- exportToPdf
HeadingLimit == 250   \* if (y > 250)
ImageLimit == 200     \* if (y > 200)
PageTop == 20         \* y = 20

\* a cursor that is never reset
BreakYNever(y, limit) == y

\* if (y > limit) { doc.addPage(); y = 20; }
BreakY(y, limit) == IF y > limit THEN PageTop ELSE y
BreakPage(page, y, limit) == IF y > limit THEN page + 1 ELSE page

\* if (!processedData) return; new jsPDF(); y = 20; doc.text(title, 20, y); y += 15
PdfBegin(via) ==
  /\ ExportIdle /\ Len(saved) < MaxExports
  /\ IF processedData = Null
       THEN export' = [routine |-> "pdf", via |-> via, stage |-> "returned"]
       ELSE export' = [routine |-> "pdf", via |-> via, selected |-> outputType,
                       stage |-> SectionStage(1), s |-> 1, i |-> 1,
                       y |-> PageTop + 15, page |-> 1,
                       ops |-> <<[op |-> "title", page |-> 1, y |-> PageTop]>>]
  /\ UNCHANGED <<appVars, runVars, histVars, serverVars>>

\* one round of processedData.sections.forEach, up to the images
PdfSection ==
  /\ export # Null /\ export.routine = "pdf" /\ export.stage = "section"
  /\ LET section == processedData.sections[export.s]
         y0 == BreakY(export.y, HeadingLimit)
         page0 == BreakPage(export.page, export.y, HeadingLimit)
         lines == SplitTextToSize(section.content)
     IN export' = [export EXCEPT
          !.page = page0,
          !.ops = @ \o <<[op |-> "heading", page |-> page0, y |-> y0],
                         [op |-> "content", page |-> page0, y |-> y0 + 10]>>,
          !.y = y0 + 10 + (lines * 7) + 5,
          !.i = 1,
          !.s = IF HasDiagramImages(section) THEN @ ELSE @ + 1,
          !.stage = IF HasDiagramImages(section) THEN "image"
                    ELSE SectionStage(export.s + 1)]
  /\ UNCHANGED <<appVars, runVars, histVars, serverVars>>

\* one round of section.diagramImages.forEach
PdfImage ==
  /\ export # Null /\ export.routine = "pdf" /\ export.stage = "image"
  /\ LET section == processedData.sections[export.s]
         y0 == BreakY(export.y, ImageLimit)
         page0 == BreakPage(export.page, export.y, ImageLimit)
         last == export.i = Len(section.diagramImages)
     IN export' = [export EXCEPT
          !.page = page0,
          !.ops = Append(@, [op |-> "image", page |-> page0, y |-> y0,
                             image |-> section.diagramImages[export.i]]),
          !.y = y0 + 105,
          !.i = IF last THEN 1 ELSE @ + 1,
          !.s = IF last THEN @ + 1 ELSE @,
          !.stage = IF last THEN SectionStage(export.s + 1) ELSE "image"]
  /\ UNCHANGED <<appVars, runVars, histVars, serverVars>>

\* doc.save(...)
PdfSave ==
  /\ export # Null /\ export.routine = "pdf" /\ export.stage = "save"
  /\ saved' = Append(saved, [format |-> "pdf"])
  /\ export' = [export EXCEPT !.stage = "saved"]
  /\ UNCHANGED <<appVars, runVars, analyzeCalls, fetchCalls, runOutcome, serverVars>>

\* ---- exportToPpt
\* if (!processedData) return; new pptxgen(); the title slide
PptBegin(via) ==
  /\ ExportIdle /\ Len(saved) < MaxExports
  /\ IF processedData = Null
       THEN export' = [routine |-> "ppt", via |-> via, stage |-> "returned"]
       ELSE export' = [routine |-> "ppt", via |-> via, selected |-> outputType,
                       stage |-> SectionStage(1), s |-> 1, i |-> 1,
                       slides |-> <<[slide |-> "title", text |-> processedData.title]>>]
  /\ UNCHANGED <<appVars, runVars, histVars, serverVars>>

\* one round of processedData.sections.forEach, up to the diagram slides
PptSection ==
  /\ export # Null /\ export.routine = "ppt" /\ export.stage = "section"
  /\ LET section == processedData.sections[export.s]
     IN export' = [export EXCEPT
          !.slides = Append(@, [slide |-> "content", section |-> export.s,
                                heading |-> section.heading,
                                content |-> section.content]),
          !.i = 1,
          !.s = IF HasDiagramImages(section) THEN @ ELSE @ + 1,
          !.stage = IF HasDiagramImages(section) THEN "image"
                    ELSE SectionStage(export.s + 1)]
  /\ UNCHANGED <<appVars, runVars, histVars, serverVars>>

\* one round of section.diagramImages.forEach: a slide for the diagram
PptImage ==
  /\ export # Null /\ export.routine = "ppt" /\ export.stage = "image"
  /\ LET section == processedData.sections[export.s]
         last == export.i = Len(section.diagramImages)
     IN export' = [export EXCEPT
          !.slides = Append(@, [slide |-> "diagram", section |-> export.s,
                                heading |-> section.heading,
                                image |-> section.diagramImages[export.i]]),
          !.i = IF last THEN 1 ELSE @ + 1,
          !.s = IF last THEN @ + 1 ELSE @,
          !.stage = IF last THEN SectionStage(export.s + 1) ELSE "image"]
  /\ UNCHANGED <<appVars, runVars, histVars, serverVars>>

\* ppt.writeFile(...)
PptSave ==
  /\ export # Null /\ export.routine = "ppt" /\ export.stage = "save"
  /\ saved' = Append(saved, [format |-> "ppt"])
  /\ export' = [export EXCEPT !.stage = "saved"]
  /\ UNCHANGED <<appVars, runVars, analyzeCalls, fetchCalls, runOutcome, serverVars>>

\* an onClick that takes the other routine
OnClickOther == IF outputType = "pdf" THEN PptBegin("button") ELSE PdfBegin("button")

\* onClick={outputType === 'pdf' ? exportToPdf : exportToPpt}
OnClickDownload == IF outputType = "pdf" THEN PdfBegin("button") ELSE PptBegin("button")

\* the click on the Download button
DownloadClick == DownloadShown /\ OnClickDownload

\* an event handler runs only when no routine is on the stack
SelectOutputType(type) == ExportIdle /\ SetOutputType(type)

\* the App between two runs, with a result of whatever shape in processedData
ExportInit ==
  /\ files = <<>> /\ docUrl = <<>> /\ isProcessing = FALSE
  /\ processedData \in ExportInputs
  /\ outputType = "pdf" /\ error = NullError /\ googleTokens = Null
  /\ pc = "idle" /\ pendingReads = {} /\ fetchBody = Null /\ response = Null
  /\ analyzeInput = Null /\ result = Null /\ images = NoImages
  /\ completed = <<>>
  /\ analyzeCalls = 0 /\ fetchCalls = 0
  /\ runOutcome = (IF processedData = Null THEN "none" ELSE "stored")
  /\ saved = <<>>
  /\ export = Null

ExportStep ==
  \/ \E type \in {"pdf", "ppt"} : SelectOutputType(type)
  \/ DownloadClick
  \/ PdfBegin("call")
  \/ PptBegin("call")
  \/ PdfSection
  \/ PdfImage
  \/ PdfSave
  \/ PptSection
  \/ PptImage
  \/ PptSave

\* ================================================================== server
EnvClientId == "GOOGLE_CLIENT_ID"
EnvClientSecret == "GOOGLE_CLIENT_SECRET"

\* the clientId / clientSecret query parameters of a request
AuthUrlQueries ==
  { [clientId |-> Undefined, clientSecret |-> Undefined],
    [clientId |-> "", clientSecret |-> ""],
    [clientId |-> "custom-id", clientSecret |-> "custom-secret"] }

\* x || y of two strings
OrElse(x, y) == IF x = Undefined \/ x = "" THEN y ELSE x

\* part_000: the one oauth2Client, built from the environment
SharedOAuth2Client == [clientId |-> EnvClientId, clientSecret |-> EnvClientSecret]

\* part_001: getOAuth2Client(clientId?, clientSecret?)
GetOAuth2Client(clientId, clientSecret) ==
  [clientId |-> OrElse(clientId, EnvClientId),
   clientSecret |-> OrElse(clientSecret, EnvClientSecret)]

\* the client GET /api/auth/url generates the authorization URL with
AuthUrlClient(clientId, clientSecret) ==
  IF serverVersion = "shared" THEN SharedOAuth2Client
  ELSE GetOAuth2Client(clientId, clientSecret)

\* the client GET /auth/callback exchanges the code with
CallbackClient ==
  IF serverVersion = "shared" THEN SharedOAuth2Client
  ELSE GetOAuth2Client(Undefined, Undefined)

\* part_000 shares one OAuth2 client; part_001 builds one per request
ServerVersions == {"shared", "perRequest"}

ServerInit(version) ==
  /\ serverVersion = version
  /\ credentials = Null
  /\ authFlows = {}
  /\ callbacks = <<>>
  /\ contentRequests = <<>>

\* GET /api/auth/url: the URL carries the client id; Google binds the code it
\* later issues to the client the URL names
AuthUrl(clientId, clientSecret) ==
  /\ authFlows' = authFlows \cup {AuthUrlClient(clientId, clientSecret)}
  /\ UNCHANGED <<serverVersion, credentials, callbacks, contentRequests>>
  /\ UNCHANGED clientVars

\* codes that reach /auth/callback: one Google issued for a generated URL, or
\* one it never issued
Codes == {[issuedTo |-> flow] : flow \in authFlows} \cup {[issuedTo |-> Null]}

\* GET /auth/callback up to await client.getToken(code)
Callback(code) ==
  /\ Len(callbacks) < MaxRequests
  /\ callbacks' = Append(callbacks,
       [code |-> code, client |-> CallbackClient, exchange |-> "pending",
        tokens |-> Null, responses |-> <<>>])
  /\ UNCHANGED <<serverVersion, credentials, authFlows, contentRequests>>
  /\ UNCHANGED clientVars

\* res.send(`<html>... postMessage({ type: 'GOOGLE_AUTH_SUCCESS', tokens }) ...`)
SuccessPage(tokens) ==
  [status |-> 200,
   body |-> [message |-> [type |-> "GOOGLE_AUTH_SUCCESS", tokens |-> tokens]]]

\* a catch block that answers with the success page
AuthFailedAsSuccess == SuccessPage(Null)

\* res.status(500).send("Authentication failed")
AuthFailedResponse == [status |-> 500, body |-> [text |-> "Authentication failed"]]

\* getToken resolves: Google exchanges a code only for the client it issued
\* the code to
ExchangeSucceeds(r, tokens) ==
  /\ r \in 1..Len(callbacks) /\ callbacks[r].exchange = "pending"
  /\ callbacks[r].code.issuedTo = callbacks[r].client
  /\ callbacks' = [callbacks EXCEPT ![r] =
       [@ EXCEPT !.exchange = "succeeded", !.tokens = tokens,
                 !.responses = Append(@, SuccessPage(tokens))]]
  /\ UNCHANGED <<serverVersion, credentials, authFlows, contentRequests>>
  /\ UNCHANGED clientVars

\* getToken rejects
ExchangeFails(r) ==
  /\ r \in 1..Len(callbacks) /\ callbacks[r].exchange = "pending"
  /\ callbacks' = [callbacks EXCEPT ![r] =
       [@ EXCEPT !.exchange = "failed",
                 !.responses = Append(@, AuthFailedResponse)]]
  /\ UNCHANGED <<serverVersion, credentials, authFlows, contentRequests>>
  /\ UNCHANGED clientVars

\* ---- POST /api/google-doc/content
\* A Google Doc: body.content is a list of structural elements; a paragraph has
\* a list of elements, of which the text runs carry text (a list of characters).
TextRun(text) == [textRun |-> [content |-> text]]
Paragraph(elements) == [paragraph |-> [elements |-> elements]]
Documents ==
  { [noBody |-> TRUE],
    [body |-> [noContent |-> TRUE]],
    [body |-> [content |-> <<>>]],
    [body |-> [content |-> <<[sectionBreak |-> TRUE], Paragraph(<<>>)>>]],
    [body |-> [content |-> <<Paragraph(<<TextRun(<<"a">>), [inlineObject |-> TRUE],
                                         TextRun(<<"b", "c">>)>>),
                             [table |-> TRUE],
                             [paragraph |-> [noElements |-> TRUE]],
                             Paragraph(<<TextRun(<<"d">>)>>)>>]] }

\* a paragraph's text with its elements taken last to first
RECURSIVE ParagraphTextReversed(_)
ParagraphTextReversed(elements) ==
  IF elements = <<>> THEN <<>>
  ELSE ParagraphTextReversed(Tail(elements))
       \o (IF "textRun" \in DOMAIN Head(elements)
             THEN Head(elements).textRun.content ELSE <<>>)

\* element.paragraph.elements?.forEach(el => { if (el.textRun) content += ... })
RECURSIVE ParagraphText(_)
ParagraphText(elements) ==
  IF elements = <<>> THEN <<>>
  ELSE (IF "textRun" \in DOMAIN Head(elements)
          THEN Head(elements).textRun.content ELSE <<>>)
       \o ParagraphText(Tail(elements))

\* paragraph.elements?. : a paragraph without elements is passed over
ElementsOf(paragraph) ==
  IF "elements" \in DOMAIN paragraph THEN paragraph.elements ELSE <<>>

\* doc.data.body?.content?.forEach(element => { if (element.paragraph) ... })
RECURSIVE BodyText(_)
BodyText(content) ==
  IF content = <<>> THEN <<>>
  ELSE (IF "paragraph" \in DOMAIN Head(content)
          THEN ParagraphText(ElementsOf(Head(content).paragraph)) ELSE <<>>)
       \o BodyText(Tail(content))

\* let content = ""; doc.data.body?.content?.forEach(...)
ExtractText(doc) ==
  IF "body" \in DOMAIN doc
    THEN IF "content" \in DOMAIN doc.body THEN BodyText(doc.body.content) ELSE <<>>
    ELSE <<>>

DocIds == {"doc1"}
ContentBodies == [docId : DocIds, tokens : Tokens]

\* the credentials of the OAuth2 client the Docs call of request r was given:
\* the shared client's (part_000) or those of the request's own client (part_001)
ClientCredentials(r) ==
  IF serverVersion = "shared" THEN credentials ELSE contentRequests[r].own

\* the handler up to await docs.documents.get(...): setCredentials(tokens), then
\* the call, whose first HTTP attempt is authorised in the same turn from the
\* credentials of the client it was given
ContentRequest(body) ==
  /\ Len(contentRequests) < MaxRequests
  /\ credentials' = IF serverVersion = "shared" THEN body.tokens ELSE credentials
  /\ contentRequests' = Append(contentRequests,
       [body |-> body, own |-> body.tokens, state |-> "waiting",
        docsCalls |-> <<body.tokens>>, doc |-> Null, responses |-> <<>>])
  /\ UNCHANGED <<serverVersion, authFlows, callbacks>>
  /\ UNCHANGED clientVars

\* Google answers an attempt 401/403: the OAuth2 client refreshes and repeats
\* the attempt once, authorised from the credentials the client holds then
DocsAuthRetry(r) ==
  /\ r \in 1..Len(contentRequests) /\ contentRequests[r].state = "waiting"
  /\ Len(contentRequests[r].docsCalls) = 1
  /\ contentRequests' = [contentRequests EXCEPT ![r] =
       [@ EXCEPT !.docsCalls = Append(@, ClientCredentials(r))]]
  /\ UNCHANGED <<serverVersion, credentials, authFlows, callbacks>>
  /\ UNCHANGED clientVars

\* docs.documents.get resolves: res.json({ content })
DocsResolves(r, doc) ==
  /\ r \in 1..Len(contentRequests) /\ contentRequests[r].state = "waiting"
  /\ contentRequests' = [contentRequests EXCEPT ![r] =
       [@ EXCEPT !.state = "done", !.doc = doc,
                 !.responses = Append(@, [status |-> 200,
                                          body |-> [content |-> ExtractText(doc)]])]]
  /\ UNCHANGED <<serverVersion, credentials, authFlows, callbacks>>
  /\ UNCHANGED clientVars

\* docs.documents.get rejects: res.status(500).json({ error: ... })
DocsRejects(r) ==
  /\ r \in 1..Len(contentRequests) /\ contentRequests[r].state = "waiting"
  /\ contentRequests' = [contentRequests EXCEPT ![r] =
       [@ EXCEPT !.state = "done",
                 !.responses = Append(@, [status |-> 500,
                    body |-> [error |-> "Failed to fetch Google Doc"]])]]
  /\ UNCHANGED <<serverVersion, credentials, authFlows, callbacks>>
  /\ UNCHANGED clientVars

ServerStep ==
  \/ \E query \in AuthUrlQueries : AuthUrl(query.clientId, query.clientSecret)
  \/ \E code \in Codes : Callback(code)
  \/ \E r \in 1..MaxRequests, tokens \in Tokens : ExchangeSucceeds(r, tokens)
  \/ \E r \in 1..MaxRequests : ExchangeFails(r)
  \/ \E body \in ContentBodies : ContentRequest(body)
  \/ \E r \in 1..MaxRequests : DocsAuthRetry(r)
  \/ \E r \in 1..MaxRequests, doc \in Documents : DocsResolves(r, doc)
  \/ \E r \in 1..MaxRequests : DocsRejects(r)

\* ================================================================== claims
RejectedOutcomes == {"analyzeRejected", "diagramRejected", "diagramRejectedPartial"}
FailedOutcomes ==
  RejectedOutcomes \cup {"fetchRejected", "noSections", "invalidUrl", "noInput"}

\* this step is the one that stores the result of the run in progress
Stores == runOutcome = "running" /\ runOutcome' = "stored"

\* ---- C1
\* C1: the stages of a run happen in order: analyzeNotes is called only once
\* every file is read or the fetch has resolved; generateDiagramImage calls
\* start only once analyzeNotes has returned; processedData is set only once
\* every generateDiagramImage call of the run has completed, and becomes
\* non-null only by a run that completes; a file is exported only from a
\* state where processedData is non-null.
C1_PipelineOrder ==
  [][ /\ (analyzeCalls' > analyzeCalls =>
            \/ pc = "reading" /\ pendingReads = {}
            \/ pc = "fetched" /\ response # Null)
      /\ ((\E c \in DOMAIN images' : c \notin DOMAIN images) =>
            pc = "analyzed" /\ result # Null)
      /\ (Stores => \A c \in Calls(result) : c \in DOMAIN images /\ images[c].done)
      /\ (processedData = Null /\ processedData' # Null => Stores)
      /\ (saved' # saved => processedData # Null)
    ]_vars

\* a Google Doc run with two generated images was stored and then exported
C1_Witness ==
  /\ Len(saved) > 0 /\ runOutcome = "stored" /\ fetchCalls = 1
  /\ processedData # Null
  /\ \E s \in 1..Len(processedData.sections) :
       /\ "diagramImages" \in DOMAIN processedData.sections[s]
       /\ Len(processedData.sections[s].diagramImages) = 2

\* ---- C2
\* C2: when analyzeNotes or a generateDiagramImage call rejects, the run ends
\* with error a non-empty message and isProcessing false, and processedData
\* is what it was when the run started: no step of a run changes it but the
\* one that stores the complete result.
C2_FailureReported ==
  /\ [](runOutcome \in RejectedOutcomes =>
          error \notin {NullError, ""} /\ ~isProcessing /\ pc = "idle")
  /\ [][runOutcome = "running" => processedData' = processedData \/ Stores]_vars

\* a diagram call rejected after another call of the run had resolved, with the
\* result of an earlier run still in place
C2_Witness ==
  /\ runOutcome = "diagramRejectedPartial"
  /\ processedData # Null /\ error # NullError /\ ~isProcessing

\* ---- C3
\* C3 as stated: in the stored result every section with diagrams has one
\* diagramImages entry per description, the i-th being what was generated
\* from diagrams[i] (a data URI or null).
C3_ImagesByIndex ==
  processedData # Null =>
    \A s \in 1..Len(processedData.sections) :
      LET section == processedData.sections[s] IN
        HasDiagrams(section) =>
          /\ "diagramImages" \in DOMAIN section
          /\ Len(section.diagramImages) = Len(section.diagrams)
          /\ \A i \in 1..Len(section.diagrams) :
               section.diagramImages[i] \in {DataUri(section.diagrams[i]), Null}

\* C3 amended: the stored diagramImages of a section are the images of the
\* descriptions whose call returned a data URI, in the order of the
\* descriptions, the null results left out: the k-th entry is the image
\* generated from the k-th description that got one (from diagrams[i] itself
\* when no call of the section returned null); a section without diagrams is
\* stored as it was returned.
C3_ImagesOfGenerated ==
  [][Stores =>
       \A s \in 1..Len(result.sections) :
         LET section == result.sections[s]
             stored == processedData'.sections[s]
             generated == {i \in 1..Len(section.diagrams) :
                             images[<<s, i>>].value # Null}
         IN IF HasDiagrams(section)
              THEN /\ Len(stored.diagramImages) = Cardinality(generated)
                   /\ \A i \in generated :
                        /\ images[<<s, i>>].value = DataUri(section.diagrams[i])
                        /\ stored.diagramImages[Cardinality({j \in generated : j <= i})]
                             = DataUri(section.diagrams[i])
              ELSE stored = section
    ]_vars

\* a stored section with two descriptions whose only image is that of the second
C3_Witness ==
  /\ processedData # Null
  /\ \E s \in 1..Len(processedData.sections) :
       LET section == processedData.sections[s] IN
         /\ HasDiagrams(section) /\ Len(section.diagrams) = 2
         /\ section.diagramImages = <<DataUri(section.diagrams[2])>>

\* ---- C4
\* C4: whatever the order in which the generateDiagramImage calls complete,
\* the stored sections are the returned sections in the returned order, the
\* images of a section follow the order of its descriptions, and every image
\* of a section was generated from a description of that same section.
C4_OrderIndependent ==
  [][Stores =>
       /\ Len(processedData'.sections) = Len(result.sections)
       /\ \A s \in 1..Len(result.sections) :
            LET section == result.sections[s]
                stored == processedData'.sections[s]
            IN /\ stored.heading = section.heading
               /\ stored.content = section.content
               /\ HasDiagrams(section) =>
                    /\ stored.diagrams = section.diagrams
                    /\ \A k \in 1..Len(stored.diagramImages) :
                         \E i \in 1..Len(section.diagrams) :
                           stored.diagramImages[k] = DataUri(section.diagrams[i])
                    /\ \A k1, k2 \in 1..Len(stored.diagramImages) :
                         k1 < k2 =>
                           \E i1, i2 \in 1..Len(section.diagrams) :
                             /\ i1 < i2
                             /\ stored.diagramImages[k1] = DataUri(section.diagrams[i1])
                             /\ stored.diagramImages[k2] = DataUri(section.diagrams[i2])
    ]_vars

\* every call of the run has resolved with an image, the later description's
\* call first: within one section, or across two sections
C4_Witness ==
  /\ pc = "diagrams" /\ Len(completed) = 2 /\ AllSettled(images)
  /\ \A c \in DOMAIN images : images[c].value # Null
  /\ completed \in {<<<<1, 2>>, <<1, 1>>>>, <<<<2, 1>>, <<1, 1>>>>}

\* ---- C5
\* C5 as stated: processedData no longer holds the earlier result once an
\* export has run, nor once a later run has started or failed.
C5_DiscardedAfterUse ==
  [][ /\ (saved' # saved => processedData' = Null)
      /\ (runOutcome' # runOutcome /\ runOutcome' \in FailedOutcomes \cup {"running"}
            => processedData' = Null)
    ]_vars

\* C5 amended: processedData keeps the result of the latest run that
\* completed, in memory only: an export leaves it unchanged, and so do the
\* start, the progress and the failure of a later run; it changes only when
\* a later run completes and stores its own result.
C5_KeptUntilReplaced ==
  [][ /\ (processedData' # processedData => Stores)
      /\ (saved' # saved => processedData' = processedData /\ processedData # Null)
    ]_vars

\* after an export and a later run that failed, the earlier result is still there
C5_Witness ==
  /\ Len(saved) > 0 /\ runOutcome \in FailedOutcomes /\ processedData # Null

\* ---- C8
\* url has 25 consecutive characters of [-\w]
ContainsDocId(url) ==
  \E i \in 1..Len(url) :
    /\ i + MinDocIdLen - 1 <= Len(url)
    /\ \A j \in i..(i + MinDocIdLen - 1) : url[j] = "w"

\* the doc branch of processNotes applies
DocSelected == docUrl # <<>> /\ googleTokens # Null /\ ContainsDocId(docUrl)

\* C8: a run uses one input source and calls analyzeNotes at most once: with
\* a file selected it reads the files and never requests the doc; the doc is
\* requested only with no file, a non-empty docUrl holding a document id and
\* googleTokens non-null; in every other case the click makes no external
\* call and ends at once with one of the two input errors.
C8_OneInputSource ==
  /\ [](/\ analyzeCalls <= 1 /\ fetchCalls <= 1
        /\ (pc = "reading" => fetchCalls = 0)
        /\ (analyzeInput # Null /\ analyzeInput.type = "image" => fetchCalls = 0)
        /\ (runOutcome \in {"invalidUrl", "noInput"} =>
              /\ fetchCalls = 0 /\ analyzeCalls = 0
              /\ error # NullError /\ ~isProcessing /\ pc = "idle"))
  /\ [][ /\ (~isProcessing /\ isProcessing' /\ Len(files) > 0 =>
               pc' = "reading" /\ fetchCalls' = 0 /\ fetchBody' = Null)
         /\ (fetchBody' # Null /\ fetchBody = Null => Len(files) = 0 /\ DocSelected)
         /\ (~isProcessing /\ Len(files) = 0 /\ ~DocSelected =>
               /\ ~isProcessing' /\ pc' = "idle" /\ fetchBody' = Null
               /\ (runOutcome' # runOutcome =>
                     /\ error' \in {ErrInvalidUrl, ErrNoInput}
                     /\ fetchCalls' = 0 /\ analyzeCalls' = 0))
       ]_vars

\* the images are being analysed while a valid doc link and tokens are present
C8_Witness ==
  /\ pc = "analyzing" /\ analyzeInput.type = "image"
  /\ DocSelected /\ fetchCalls = 0 /\ analyzeCalls = 1

\* ---- C9
\* C9 as stated: once the server has answered the fetch with status 500, the
\* run ends with error set, without a call of analyzeNotes and with
\* processedData unchanged.
C9_FailedFetchStops ==
  [][pc = "fetched" /\ response.status = 500 /\ pc' # pc =>
       /\ pc' = "idle" /\ ~isProcessing' /\ error' # NullError
       /\ analyzeCalls' = 0 /\ processedData' = processedData
    ]_vars

\* ---- C6
\* C6 as stated: every Docs call made on behalf of a request is authorised by
\* the tokens of that request's body.
C6_OwnTokens ==
  \A r \in 1..Len(contentRequests) :
    \A k \in 1..Len(contentRequests[r].docsCalls) :
      contentRequests[r].docsCalls[k] = contentRequests[r].body.tokens

\* ---- C7
\* C7: a callback request has no response while its exchange is pending and
\* exactly one afterwards: the GOOGLE_AUTH_SUCCESS page carrying the
\* exchanged tokens if the exchange succeeded, status 500 "Authentication
\* failed" without tokens or success message if it failed.
C7_CallbackAnswersOnce ==
  \A r \in 1..Len(callbacks) :
    LET req == callbacks[r] IN
      /\ req.exchange = "pending" => req.responses = <<>>
      /\ req.exchange = "succeeded" =>
           /\ Len(req.responses) = 1
           /\ req.responses[1].status = 200
           /\ req.responses[1].body =
                [message |-> [type |-> "GOOGLE_AUTH_SUCCESS", tokens |-> req.tokens]]
           /\ req.tokens \in Tokens
      /\ req.exchange = "failed" =>
           /\ Len(req.responses) = 1
           /\ req.responses[1].status = 500
           /\ req.responses[1].body = [text |-> "Authentication failed"]

\* one callback answered after a failed exchange, another after a successful one
C7_Witness ==
  \E r1, r2 \in 1..Len(callbacks) :
    /\ callbacks[r1].exchange = "failed" /\ Len(callbacks[r1].responses) = 1
    /\ callbacks[r2].exchange = "succeeded" /\ Len(callbacks[r2].responses) = 1

\* ---- C10
\* C10 as stated: in the per-request version, the callback exchanges a code
\* with the client id and secret of the authorization URL the code was
\* issued for.
C10_SameClient ==
  serverVersion = "perRequest" =>
    \A r \in 1..Len(callbacks) :
      callbacks[r].code.issuedTo # Null =>
        callbacks[r].client = callbacks[r].code.issuedTo

\* ---- C11
\* this step belongs to an export routine
ExportActs == export' # export \/ saved' # saved

\* C11: exportToPdf and exportToPpt change no App state (files, docUrl,
\* isProcessing, processedData, outputType, error, googleTokens); called with
\* processedData null they return at once, building no document and saving no
\* file; the file a click on Download saves has the format that outputType
\* had at the click.
C11_ExportsReadOnly ==
  [][ExportActs =>
        /\ UNCHANGED appVars
        /\ (processedData = Null =>
              /\ saved' = saved
              /\ export'.stage = "returned"
              /\ DOMAIN export' = {"routine", "via", "stage"})
        /\ (saved' # saved =>
              /\ Len(saved') = Len(saved) + 1
              /\ saved'[Len(saved')].format = export.routine
              /\ (export.via = "button" =>
                    /\ export.selected = export.routine
                    /\ outputType = export.selected))]_vars

\* a click on Download with PowerPoint selected has saved its file
C11_Witness ==
  /\ export # Null /\ export.stage = "saved" /\ export.via = "button"
  /\ outputType = "ppt" /\ saved = <<[format |-> "ppt"]>>
  /\ processedData # Null

\* ---- C12
ImageCount(section) ==
  IF "diagramImages" \in DOMAIN section THEN Len(section.diagramImages) ELSE 0

\* the number of diagram images of the first k sections
RECURSIVE ImagesUpTo(_, _)
ImagesUpTo(sections, k) ==
  IF k = 0 THEN 0 ELSE ImagesUpTo(sections, k - 1) + ImageCount(sections[k])

\* the position in the deck of the content slide of section s
ContentSlideAt(sections, s) == 1 + s + ImagesUpTo(sections, s - 1)

\* C12: the deck exportToPpt writes for a result of n sections is the title
\* slide, then for each section in order its content slide (heading and
\* content) followed by one diagram slide per entry of its diagramImages in
\* order: 1 + n + (number of diagram images) slides; a section without
\* diagramImages contributes exactly its content slide.
C12_DeckOfResult ==
  (export # Null /\ export.routine = "ppt" /\ export.stage \in {"save", "saved"}) =>
    LET sections == processedData.sections
        n == Len(sections)
        slides == export.slides
    IN /\ Len(slides) = 1 + n + ImagesUpTo(sections, n)
       /\ slides[1] = [slide |-> "title", text |-> processedData.title]
       /\ \A s \in 1..n :
            /\ slides[ContentSlideAt(sections, s)] =
                 [slide |-> "content", section |-> s,
                  heading |-> sections[s].heading, content |-> sections[s].content]
            /\ \A i \in 1..ImageCount(sections[s]) :
                 slides[ContentSlideAt(sections, s) + i] =
                   [slide |-> "diagram", section |-> s,
                    heading |-> sections[s].heading,
                    image |-> sections[s].diagramImages[i]]

\* a deck is written for two sections: one with a single image, one that has
\* an empty diagramImages list
C12_Witness ==
  /\ export # Null /\ export.routine = "ppt" /\ export.stage = "saved"
  /\ Len(processedData.sections) = 2
  /\ ImageCount(processedData.sections[1]) = 1
  /\ "diagramImages" \in DOMAIN processedData.sections[2]
  /\ ImageCount(processedData.sections[2]) = 0
  /\ Len(export.slides) = 4

\* ---- C13
\* the text runs of a document, in document order: <<p, e>> is element e of the
\* paragraph that is body element p
TextRunsOf(doc) ==
  IF "body" \notin DOMAIN doc THEN {}
  ELSE IF "content" \notin DOMAIN doc.body THEN {}
  ELSE LET content == doc.body.content
           paragraphs == {p \in 1..Len(content) :
                            /\ "paragraph" \in DOMAIN content[p]
                            /\ "elements" \in DOMAIN content[p].paragraph}
       IN UNION { { <<p, e>> : e \in {e \in 1..Len(content[p].paragraph.elements) :
                      "textRun" \in DOMAIN content[p].paragraph.elements[e]} } :
                  p \in paragraphs }

RunText(doc, pe) == doc.body.content[pe[1]].paragraph.elements[pe[2]].textRun.content
Before(a, b) == a[1] < b[1] \/ (a[1] = b[1] /\ a[2] < b[2])

\* the characters of the text runs before run pe
RECURSIVE LenBefore(_, _, _)
LenBefore(doc, runs, pe) ==
  LET earlier == {q \in runs : Before(q, pe)}
  IN IF earlier = {} THEN 0
     ELSE LET q == CHOOSE x \in earlier : \A z \in earlier : z = x \/ Before(z, x)
          IN LenBefore(doc, runs, q) + Len(RunText(doc, q))

\* C13: the content POST /api/google-doc/content answers with is the text of
\* every text run of every paragraph of the document body, in document order,
\* and nothing else (other body elements and other paragraph elements add
\* nothing); a document without body content is answered 200 with the empty
\* string.
C13_TextOfDocument ==
  \A r \in 1..Len(contentRequests) :
    (contentRequests[r].state = "done" /\ contentRequests[r].doc # Null) =>
      LET doc == contentRequests[r].doc
          runs == TextRunsOf(doc)
          res == contentRequests[r].responses[1]
          total == IF runs = {} THEN 0
                   ELSE LET last == CHOOSE x \in runs : \A z \in runs : z = x \/ Before(z, x)
                        IN LenBefore(doc, runs, last) + Len(RunText(doc, last))
      IN /\ Len(contentRequests[r].responses) = 1
         /\ res.status = 200
         /\ Len(res.body.content) = total
         /\ \A pe \in runs : \A k \in 1..Len(RunText(doc, pe)) :
              res.body.content[LenBefore(doc, runs, pe) + k] = RunText(doc, pe)[k]

\* a document with text runs among other elements was answered, and so was one
\* without body content
C13_Witness ==
  /\ \E r \in 1..Len(contentRequests) :
       /\ contentRequests[r].state = "done" /\ contentRequests[r].doc # Null
       /\ contentRequests[r].responses[1].body.content = <<"a", "b", "c", "d">>
  /\ \E r \in 1..Len(contentRequests) :
       /\ contentRequests[r].state = "done"
       /\ contentRequests[r].doc = [body |-> [noContent |-> TRUE]]
       /\ contentRequests[r].responses[1] = [status |-> 200, body |-> [content |-> <<>>]]

\* ---- C14
\* C14: analyzeNotes returns {} for an empty model answer; a run whose analysis
\* result has no sections list (the empty object, or JSON without sections)
\* makes no generateDiagramImage call and ends with error set, isProcessing
\* false and processedData unchanged; processedData never holds a value
\* without a sections list.
C14_EmptyAnswerReported ==
  [][ /\ ((pc = "analyzing" /\ pc' = "analyzed") =>
             /\ ParseReply([text |-> "empty"]) = EmptyObject
             /\ result' \in {EmptyObject} \cup
                             {reply.value : reply \in {x \in Replies : x.text = "json"}})
      /\ ((result # Null /\ ~HasSections(result)) =>
             /\ DOMAIN images = {} /\ DOMAIN images' = {}
             /\ UNCHANGED processedData
             /\ (pc' # pc =>
                   /\ error' \notin {NullError, ""}
                   /\ ~isProcessing'
                   /\ pc' = "idle" /\ runOutcome' = "noSections"))
      /\ (processedData' # Null => HasSections(processedData')) ]_vars

\* a run whose analysis returned {} has ended with its error, an earlier result
\* still in place
C14_Witness ==
  /\ runOutcome = "noSections" /\ pc = "idle" /\ ~isProcessing
  /\ error = ErrNoSections
  /\ processedData # Null /\ Len(processedData.sections) > 0

\* ---- C15
\* this step is a click on Generate: it starts a run, or throws before the
\* first await
RunStarts ==
  \/ pc' \in {"reading", "fetching"} /\ pc' # pc
  \/ /\ runOutcome' \in {"invalidUrl", "noInput"}
     /\ error' \in {ErrInvalidUrl, ErrNoInput}
     /\ (runOutcome' # runOutcome \/ error' # error)
RunEnds == isProcessing /\ ~isProcessing'

\* C15: at most one processNotes run is in progress: isProcessing is true
\* exactly while a run is in progress; a run starts only with isProcessing
\* false and an input present (files or docUrl non-empty), hence with no run
\* in progress; so processedData and error are written by the run in progress
\* only, and the run that ends is the run started last.
C15_OneRunAtATime ==
  [][ /\ (isProcessing <=> pc # "idle")
      /\ (isProcessing <=> runOutcome = "running")
      /\ (isProcessing' <=> pc' # "idle")
      /\ (RunStarts =>
            /\ ~isProcessing /\ pc = "idle" /\ runOutcome # "running"
            /\ (Len(files) > 0 \/ docUrl # <<>>))
      /\ (RunEnds =>
            /\ runOutcome = "running"
            /\ runOutcome' \in {"stored"} \cup FailedOutcomes)
      /\ (processedData' # processedData => RunEnds)
      /\ (error' # error => RunStarts \/ RunEnds \/ error' = ErrConnect) ]_vars

\* a second run is in progress, the result of the first in place
C15_Witness ==
  /\ isProcessing /\ pc = "diagrams" /\ processedData # Null
  /\ \E c \in DOMAIN images : ~images[c].done

\* ---- C16
\* C16: given that every file read, fetch and AI call is answered, a run that
\* has set isProcessing sets it back to false, and the step that does so is
\* either the one that stores the run's result in processedData (error left
\* as it was) or one that sets error (processedData left as it was), never
\* both and never neither.
C16_RunTerminates ==
  /\ isProcessing ~> ~isProcessing
  /\ [][RunEnds =>
          LET stored == /\ runOutcome' = "stored"
                        /\ processedData' = WithImages(result, images)
              reported == /\ runOutcome' \in FailedOutcomes
                          /\ error' # error /\ error' \notin {NullError, ""}
          IN /\ stored \/ reported
             /\ stored => UNCHANGED error
             /\ reported => UNCHANGED processedData]_vars

\* a run has ended by a rejected generateDiagramImage call after another call
\* of it had resolved
C16_Witness ==
  /\ ~isProcessing /\ pc = "idle" /\ runOutcome = "diagramRejectedPartial"
  /\ error # NullError

\* ---- C17
\* C17: exportToPdf draws no section heading at y > 250 and no diagram image at
\* y > 200 (the image's bottom edge, y + 95, stays within 295); when the cursor
\* is past the threshold before a heading or an image, a page is added and the
\* item is drawn at y = 20 of the new page.
C17_CursorKeptOnPage ==
  [][(export' # export /\ export # Null /\ export.routine = "pdf"
        /\ export.stage \in {"section", "image"}) =>
       LET limit == IF export.stage = "section" THEN HeadingLimit ELSE ImageLimit
           item == export'.ops[Len(export.ops) + 1]
       IN /\ item.op = (IF export.stage = "section" THEN "heading" ELSE "image")
          /\ item.y <= limit
          /\ (item.op = "image" => item.y + 95 <= 295)
          /\ (export.y > limit =>
                item.y = 20 /\ item.page = export.page + 1
                  /\ export'.page = export.page + 1)
          /\ (export.y <= limit =>
                item.y = export.y /\ item.page = export.page
                  /\ export'.page = export.page)]_vars

\* a heading and an image were each moved to a new page
C17_Witness ==
  /\ export # Null /\ export.routine = "pdf" /\ export.stage = "saved"
  /\ \E k \in 2..Len(export.ops) :
       /\ export.ops[k].op = "heading" /\ export.ops[k].y = 20
       /\ export.ops[k].page = export.ops[k - 1].page + 1
  /\ \E k \in 2..Len(export.ops) :
       /\ export.ops[k].op = "image" /\ export.ops[k].y = 20
       /\ export.ops[k].page = export.ops[k - 1].page + 1

\* ---- C18
\* C18: googleTokens changes only by a window message of type
\* 'GOOGLE_AUTH_SUCCESS', whose tokens it then holds; no other operation
\* modifies it; once non-null it never returns to null.
C18_TokensOnlyByHandOff ==
  [][ /\ (googleTokens' # googleTokens =>
             /\ \E data \in Messages :
                  data.type = "GOOGLE_AUTH_SUCCESS" /\ googleTokens' = data.tokens
             /\ UNCHANGED <<files, docUrl, isProcessing, processedData, outputType,
                            error, runVars, histVars>>)
      /\ (googleTokens # Null => googleTokens' # Null) ]_vars

\* ========================================================== specifications
\* the client, with the server as its environment
Init == ClientInit /\ ServerInit("perRequest")
Next == ClientStep
Spec == Init /\ [][Next]_vars

\* the server in either version, with its callers as its environment
ServerSpecInit == ClientInit /\ \E version \in ServerVersions : ServerInit(version)
ServerNext == ServerStep
ServerSpec == ServerSpecInit /\ [][ServerNext]_vars

\* the client with every pending file read, fetch and AI call answered
\* (the inputs, the Google hand-off and the runs; the exports, which neither
\* read nor write what a run uses, are left to Spec and ExportSpec)
LiveNext ==
  \/ HandleFileChange
  \/ \E index \in 1..MaxFiles : RemoveFile(index)
  \/ \E url \in DocUrls : SetDocUrl(url)
  \/ \E data \in Messages : HandleMessage(data)
  \/ HandleGoogleConnectFails
  \/ ProcessNotes
  \/ RunProgress
LiveSpec == Init /\ [][LiveNext]_vars /\ WF_vars(RunProgress)

\* the export routines on every result of ExportInputs
ExportSpecInit == ExportInit /\ ServerInit("perRequest")
ExportNext == ExportStep
ExportSpec == ExportSpecInit /\ [][ExportNext]_vars

====
